---- MODULE Spec2Model ----
(***************************************************************************)
(* PBS Job Monitor & Notifier: the Submitter (mqsub.py), the detached      *)
(* Monitor (monitor.py) with its polling loop, the Notifier (notifier.py)  *)
(* and the scheduler they query.  Text is a sequence of one-character      *)
(* strings; an Optional[str] is a sequence of length 0 (None) or 1.        *)
(***************************************************************************)
EXTENDS Integers, Sequences, FiniteSets, TLC

\* ------------------------------------------------------------------ bounds

\* Non-terminal loop polls explored per Monitor run.
MaxPolls == 3

\* Longest qsub output explored when every output is tried.
MaxOutputLen == 4

\* Most lines of a scheduler text dump explored when every dump is tried.
MaxProbeLines == 3

\* Most LoggerConfig calls explored in one process.
MaxLogCalls == 4

\* ------------------------------------------------------------- text helpers

None == << >>
Some(s) == << s >>

IsSpace(c) == c \in {" ", "\n", "\t", "\r"}

RECURSIVE LStrip(_)
LStrip(s) ==
    IF s = << >> THEN << >>
    ELSE IF IsSpace(Head(s)) THEN LStrip(Tail(s)) ELSE s

RECURSIVE RStrip(_)
RStrip(s) ==
    IF s = << >> THEN << >>
    ELSE IF IsSpace(s[Len(s)]) THEN RStrip(SubSeq(s, 1, Len(s) - 1)) ELSE s

\* str.strip()
Strip(s) == RStrip(LStrip(s))

RECURSIVE LStripChar(_, _)
LStripChar(s, c) ==
    IF s = << >> THEN << >>
    ELSE IF Head(s) = c THEN LStripChar(Tail(s), c) ELSE s

RECURSIVE RStripChar(_, _)
RStripChar(s, c) ==
    IF s = << >> THEN << >>
    ELSE IF s[Len(s)] = c THEN RStripChar(SubSeq(s, 1, Len(s) - 1), c) ELSE s

\* str.strip(c) for a one-character c
StripChar(s, c) == RStripChar(LStripChar(s, c), c)

\* str.startswith(p)
StartsWith(s, p) == Len(s) >= Len(p) /\ SubSeq(s, 1, Len(p)) = p

\* p in s
Contains(s, p) ==
    \E i \in 1..(Len(s) - Len(p) + 1) : SubSeq(s, i, i + Len(p) - 1) = p

\* Index of the first c in s, 0 when there is none.
IndexOf(s, c) ==
    IF \E i \in 1..Len(s) : s[i] = c
    THEN CHOOSE i \in 1..Len(s) : s[i] = c /\ \A j \in 1..(i - 1) : s[j] # c
    ELSE 0

\* str.split(c): every piece between occurrences of c, empty pieces kept.
RECURSIVE Split(_, _)
Split(s, c) ==
    LET i == IndexOf(s, c)
    IN  IF i = 0 THEN << s >>
        ELSE << SubSeq(s, 1, i - 1) >> \o Split(SubSeq(s, i + 1, Len(s)), c)

\* str.split(c, 1): at most one cut.
SplitOnce(s, c) ==
    LET i == IndexOf(s, c)
    IN  IF i = 0 THEN << s >>
        ELSE << SubSeq(s, 1, i - 1), SubSeq(s, i + 1, Len(s)) >>

\* Length of the leading run of non-space characters of s.
RECURSIVE WordLen(_)
WordLen(s) ==
    IF s = << >> \/ IsSpace(Head(s)) THEN 0 ELSE 1 + WordLen(Tail(s))

\* str.split(): the whitespace-delimited fields, no empty field.
RECURSIVE SplitWS(_)
SplitWS(s) ==
    LET t == LStrip(s)
        n == WordLen(t)
    IN  IF t = << >> THEN << >>
        ELSE << SubSeq(t, 1, n) >> \o SplitWS(SubSeq(t, n + 1, Len(t)))

\* ---------------------------------------------------------------- literals

\* 'Job_Name = '
JOB_NAME_PREFIX ==
    <<"J", "o", "b", "_", "N", "a", "m", "e", " ", "=", " ">>

\* 'job_state = '
JOB_STATE_PREFIX ==
    <<"j", "o", "b", "_", "s", "t", "a", "t", "e", " ", "=", " ">>

\* 'Exit_status'
EXIT_STATUS ==
    <<"E", "x", "i", "t", "_", "s", "t", "a", "t", "u", "s">>

\* 'Unknown'
UNKNOWN ==
    <<"U", "n", "k", "n", "o", "w", "n">>

\* 'C'
COMPLETED ==
    <<"C">>

\* -------------------------------------------------- mqsub.py: parse_job_id

\* A call's outcome: the value returned, or an exception raised.
Returned(v) == [raised |-> FALSE, value |-> v]
Raised == [raised |-> TRUE, value |-> << >>]

\* Slip: the emptiness test is missing.
parse_job_id_unchecked(qsub_output) ==
    Returned(Split(Strip(qsub_output), ".")[1])

parse_job_id(qsub_output) ==
    LET stripped == Strip(qsub_output)
    IN  IF stripped = << >> THEN Raised
        ELSE Returned(Split(stripped, ".")[1])

\* ------------------------------------------- monitor.py: qstat text parsing

\* Slip: the loop does not return at its first match, the last one wins.
LastLineWith(lines, prefix) ==
    IF \E i \in 1..Len(lines) : StartsWith(Strip(lines[i]), prefix)
    THEN CHOOSE i \in 1..Len(lines) :
            /\ StartsWith(Strip(lines[i]), prefix)
            /\ \A j \in (i + 1)..Len(lines) : ~StartsWith(Strip(lines[j]), prefix)
    ELSE 0

\* Index of the first line whose stripped text starts with prefix, else 0.
FirstLineWith(lines, prefix) ==
    IF \E i \in 1..Len(lines) : StartsWith(Strip(lines[i]), prefix)
    THEN CHOOSE i \in 1..Len(lines) :
            /\ StartsWith(Strip(lines[i]), prefix)
            /\ \A j \in 1..(i - 1) : ~StartsWith(Strip(lines[j]), prefix)
    ELSE 0

\* line.split('=', 1)[1].strip().strip('"')
FieldValue(line) == StripChar(Strip(SplitOnce(line, "=")[2]), "\"")

_parse_job_name(output) ==
    LET lines == Split(output, "\n")
        i == FirstLineWith(lines, JOB_NAME_PREFIX)
    IN  IF i = 0 THEN None ELSE Some(FieldValue(lines[i]))

_parse_job_status(output) ==
    LET lines == Split(output, "\n")
        i == FirstLineWith(lines, JOB_STATE_PREFIX)
    IN  IF i = 0 THEN None ELSE Some(FieldValue(lines[i]))

\* A subprocess.run call: kind is "completed" (stdout captured),
\* "TimeoutExpired" or "Exception".
Completed(text) == [kind |-> "completed", stdout |-> text]
TimedOut == [kind |-> "TimeoutExpired", stdout |-> << >>]
Failed == [kind |-> "Exception", stdout |-> << >>]

\* <<job_name, status>>
_get_job_status(run) ==
    IF run.kind # "completed" THEN << None, None >>
    ELSE << _parse_job_name(run.stdout), _parse_job_status(run.stdout) >>

\* ------------------------------------------ monitor.py: _get_exit_status

\* Index of the first line that contains 'Exit_status' and has at least
\* three whitespace-delimited fields, else 0.
FirstExitLine(lines) ==
    LET hit(i) == /\ Contains(lines[i], EXIT_STATUS)
                  /\ Len(SplitWS(Strip(lines[i]))) >= 3
    IN  IF \E i \in 1..Len(lines) : hit(i)
        THEN CHOOSE i \in 1..Len(lines) : hit(i) /\ \A j \in 1..(i - 1) : ~hit(j)
        ELSE 0

_get_exit_status(run) ==
    IF run.kind # "completed" THEN None
    ELSE IF ~Contains(run.stdout, EXIT_STATUS) THEN None
    ELSE LET lines == Split(run.stdout, "\n")
             i == FirstExitLine(lines)
         IN  IF i = 0 THEN None ELSE Some(SplitWS(Strip(lines[i]))[3])

\* ------------------------------------------------------------ notifier.py

\* The SMTP session: the step that raises, or "sent".
SmtpOutcomes == {"sent", "connect_error", "starttls_error", "login_error",
                 "send_message_error"}

_send_email(smtp) == IF smtp = "sent" THEN Returned(TRUE) ELSE Raised

_create_message(job_id, job_name, exit_status) ==
    LET job_name_str ==
            IF job_name # None /\ job_name[1] # << >> THEN job_name[1] ELSE UNKNOWN
    IN  [subject_job_name |-> job_name_str,
         subject_job_id |-> job_id,
         body_job_id |-> job_id,
         body_job_name |-> job_name_str,
         body_exit_status |-> exit_status]

\* Slip: the transport call is not wrapped, so its exception propagates.
send_notification_unguarded(smtp) == _send_email(smtp)

\* The boolean returned; no exception leaves send_notification.
send_notification(smtp) ==
    LET result == _send_email(smtp)
    IN  IF result.raised THEN Returned(FALSE) ELSE Returned(result.value)

\* ---------------------------------------------------------- the scheduler

\* '12345': the identifier the scheduler assigned to the submitted job.
RealJobId ==
    <<"1", "2", "3", "4", "5">>

\* 'Job Id: 12345.server1\n'
QstatHeader ==
    <<"J", "o", "b", " ", "I", "d", ":", " ", "1", "2", "3", "4", "5", ".",
      "s", "e", "r", "v", "e", "r", "1", "\n">>

\* '    Job_Name = sim\n'
QstatNameLine ==
    <<" ", " ", " ", " ", "J", "o", "b", "_", "N", "a", "m", "e", " ", "=",
      " ", "s", "i", "m", "\n">>

\* '    job_state = '
QstatStateKey ==
    <<" ", " ", " ", " ", "j", "o", "b", "_", "s", "t", "a", "t", "e", " ",
      "=", " ">>

\* '\n    queue = batch\n'
QstatTail ==
    <<"\n", " ", " ", " ", " ", "q", "u", "e", "u", "e", " ", "=", " ", "b",
      "a", "t", "c", "h", "\n">>

\* 'sim'
JobNameText ==
    <<"s", "i", "m">>

\* The job's states in the scheduler: not submitted, queued, running,
\* completed and still listed, purged from the queue.
JobStates == {"none", "Q", "R", "C", "gone"}
Listed == {"Q", "R", "C"}

\* stdout of `qstat -f job_id`: the job's dump while it is listed, nothing
\* (the error goes to stderr) for an identifier the scheduler does not list.
QstatStdout(jid, js) ==
    IF jid = RealJobId /\ js \in Listed
    THEN QstatHeader \o QstatNameLine \o QstatStateKey \o << js >> \o QstatTail
    ELSE << >>

\* Every way one `qstat -f job_id` call can end.
QstatRuns(jid, js) == {Completed(QstatStdout(jid, js)), TimedOut, Failed}

\* A line of a text dump: its text, and what it is: the key it assigns
\* ("other" when it is neither 'job_state = ...' nor 'Job_Name = ...') and
\* the value.
DumpLine(indent, key, text, value) ==
    [text |-> indent \o text, key |-> key, value |-> value]

QUOTE == << "\"" >>
INDENT == << " ", " ", " ", " " >>

\* '    job_state = R', 'job_state = C', '    Job_Name = "a"',
\* 'Job_Name = b', '    queue = x', '', 'x job_state = Q'
ProbeLines ==
    {DumpLine(INDENT, "job_state", JOB_STATE_PREFIX \o << "R" >>, << "R" >>),
     DumpLine(<< >>, "job_state", JOB_STATE_PREFIX \o COMPLETED, COMPLETED),
     DumpLine(INDENT, "Job_Name", JOB_NAME_PREFIX \o QUOTE \o << "a" >> \o QUOTE,
              << "a" >>),
     DumpLine(<< >>, "Job_Name", JOB_NAME_PREFIX \o << "b" >>, << "b" >>),
     DumpLine(INDENT, "other", << "q", "u", "e", "u", "e", " ", "=", " ", "x" >>,
              << "x" >>),
     DumpLine(<< >>, "other", << >>, << >>),
     DumpLine(<< >>, "other", << "x", " " >> \o JOB_STATE_PREFIX \o << "Q" >>,
              << "Q" >>)}

\* Every dump of at most MaxProbeLines such lines.
Probes == UNION {[1..n -> ProbeLines] : n \in 0..MaxProbeLines}

\* The dump as qstat prints it: each line ended by a line end.
RECURSIVE ProbeText(_)
ProbeText(lines) ==
    IF lines = << >> THEN << >>
    ELSE Head(lines).text \o << "\n" >> \o ProbeText(Tail(lines))

ProbeRuns == {Completed(ProbeText(lines)) : lines \in Probes}

\* _get_job_status on each way a qstat call can end, computed once.
AllQstatRuns == UNION {QstatRuns(RealJobId, js) : js \in JobStates}
JobStatusOf == [run \in AllQstatRuns \cup ProbeRuns |-> _get_job_status(run)]

\* ''
TRACE_EMPTY ==
    << >>

\* 'Job: 12345.server1\n\n05/12/2020 10:00:00  S    Exit_status=0\n'
TRACE_LOG_LINE ==
    <<"J", "o", "b", ":", " ", "1", "2", "3", "4", "5", ".", "s", "e", "r",
      "v", "e", "r", "1", "\n", "\n", "0", "5", "/", "1", "2", "/", "2", "0",
      "2", "0", " ", "1", "0", ":", "0", "0", ":", "0", "0", " ", " ", "S",
      " ", " ", " ", " ", "E", "x", "i", "t", "_", "s", "t", "a", "t", "u",
      "s", "=", "0", "\n">>

\* 'Exit_status = 1\n'
TRACE_FIELDS ==
    <<"E", "x", "i", "t", "_", "s", "t", "a", "t", "u", "s", " ", "=", " ",
      "1", "\n">>

\* 'Exit_status=2\n'
TRACE_SHORT ==
    <<"E", "x", "i", "t", "_", "s", "t", "a", "t", "u", "s", "=", "2",
      "\n">>

\* Every way one `tracejob -n 1 job_id` call can end.
TracejobRuns ==
    {Completed(t) : t \in {TRACE_EMPTY, TRACE_LOG_LINE, TRACE_FIELDS, TRACE_SHORT}}
        \cup {TimedOut, Failed}

\* _get_exit_status on each way a tracejob call can end, computed once.
ExitStatusOf == [run \in TracejobRuns |-> _get_exit_status(run)]

\* '12345.server1\n'
OUT_SUFFIXED ==
    <<"1", "2", "3", "4", "5", ".", "s", "e", "r", "v", "e", "r", "1", "\n">>

\* '12345\n'
OUT_BARE ==
    <<"1", "2", "3", "4", "5", "\n">>

\* ''
OUT_EMPTY ==
    << >>

\* ' \n'
OUT_BLANK ==
    <<" ", "\n">>

\* '.server1\n'
OUT_DOT_FIRST ==
    <<".", "s", "e", "r", "v", "e", "r", "1", "\n">>

\* Every way the `qsub` call can end: check=True turns a non-zero exit
\* into CalledProcessError; a missing command is FileNotFoundError.
QsubRuns ==
    {Completed(o) : o \in {OUT_SUFFIXED, OUT_BARE, OUT_EMPTY, OUT_BLANK, OUT_DOT_FIRST}}
        \cup {[kind |-> "CalledProcessError", stdout |-> << >>],
              [kind |-> "FileNotFoundError", stdout |-> << >>]}

\* parse_job_id on each qsub stdout, computed once.
\* Every output of at most MaxOutputLen characters a qsub that exits zero
\* can print: digits, dots, blanks and line ends.
OutputChars == {"1", ".", " ", "\n"}
QsubOutputs == UNION {[1..n -> OutputChars] : n \in 0..MaxOutputLen}
AnyQsubRuns == {Completed(o) : o \in QsubOutputs}

ParsedJobId == [run \in QsubRuns \cup AnyQsubRuns |-> parse_job_id(run.stdout)]

\* Values a configuration file gives poll_interval; time.sleep raises
\* ValueError on a negative one.
PollIntervals == {-1, 0}

\* ------------------------------------------------------- config_loader.py

DEFAULT_CONFIG == [pbs_username |-> "zpzheng", poll_interval |-> 60]

REQUIRED_PARAMS ==
    << "smtp_server", "smtp_port", "smtp_user", "smtp_password",
       "recipient_email" >>

Range(seq) == {seq[i] : i \in DOMAIN seq}

ConfigKeys == Range(REQUIRED_PARAMS) \cup DOMAIN DEFAULT_CONFIG

\* The value a configuration file gives each key but poll_interval.
FileValue ==
    [smtp_server |-> "smtp.example.org", smtp_port |-> 587,
     smtp_user |-> "bot@example.org", smtp_password |-> "secret",
     recipient_email |-> "me@example.org", pbs_username |-> "alice",
     poll_interval |-> 0]

\* The file at the configuration path: absent, not JSON, or a JSON object
\* holding any subset of the keys.
ConfigFiles ==
    {[state |-> "missing", data |-> << >>], [state |-> "invalid", data |-> << >>]}
        \cup {[state |-> "json",
               data |-> [k \in S |-> IF k = "poll_interval" THEN p ELSE FileValue[k]]] :
                 S \in SUBSET ConfigKeys, p \in PollIntervals}

\* dict.copy() then dict.update(loaded)
Merged(defaults, loaded) ==
    [k \in DOMAIN defaults \cup DOMAIN loaded |->
        IF k \in DOMAIN loaded THEN loaded[k] ELSE defaults[k]]

\* Slip: validation stops at the first missing parameter.
_validate_config_first(config) ==
    LET missing == SelectSeq(REQUIRED_PARAMS, LAMBDA param : param \notin DOMAIN config)
    IN  IF missing = << >> THEN << >> ELSE << missing[1] >>

\* The missing parameters the ConfigurationError names (none: no error).
_validate_config(config) ==
    SelectSeq(REQUIRED_PARAMS, LAMBDA param : param \notin DOMAIN config)

\* error: "none", or which ConfigurationError was raised.
_load_config(file) ==
    IF file.state = "missing"
    THEN [error |-> "not_found", missing |-> << >>, config |-> None]
    ELSE IF file.state = "invalid"
    THEN [error |-> "invalid_json", missing |-> << >>, config |-> None]
    ELSE LET merged_config == Merged(DEFAULT_CONFIG, file.data)
             missing_params == _validate_config(merged_config)
         IN  IF missing_params # << >>
             THEN [error |-> "missing_params", missing |-> missing_params,
                   config |-> None]
             ELSE [error |-> "none", missing |-> << >>,
                   config |-> Some(merged_config)]

\* ConfigurationLoader(path) on each file, computed once.
LoadedConfig == [file \in ConfigFiles |-> _load_config(file)]

\* -------------------------------------------------------- mqsub.py: main

\* The command lines tried (sys.argv[1:]).
Argvs ==
    {<< >>, << "job.sh" >>, << "-c", "alt.json", "job.sh" >>, << "-c" >>,
     << "--help" >>, << "-c", "alt.json" >>, << "job.sh", "-h" >>}

\* Steps 1 to 4: the argument loop from position i on.
RECURSIVE ParseArgs(_, _, _, _)
ParseArgs(args, i, config_path, qsub_args) ==
    IF i > Len(args)
    THEN [outcome |-> "parsed", config_path |-> config_path,
          qsub_args |-> qsub_args]
    ELSE IF args[i] \in {"-c", "--config"}
    THEN IF i + 1 > Len(args)
         THEN [outcome |-> "config_requires_value", config_path |-> config_path,
               qsub_args |-> qsub_args]
         ELSE ParseArgs(args, i + 2, args[i + 1], qsub_args)
    ELSE IF args[i] \in {"--help", "-h"}
    THEN [outcome |-> "help", config_path |-> config_path,
          qsub_args |-> qsub_args]
    ELSE ParseArgs(args, i + 1, config_path, Append(qsub_args, args[i]))

\* The argument loop on each command line, computed once.
ParsedArgs == [args \in Argvs |-> ParseArgs(args, 1, "config.json", << >>)]

\* Slip: the check of step 5 is missing.
NoScriptNever(qsub_args) == FALSE

\* Step 5: no argument is left for qsub.
NoScript(qsub_args) == qsub_args = << >>

\* ------------------------------------------------------------------- state

\* ---------------------------------------------------------------- logger.py

\* The component names, the levels and the log_file arguments tried, and
\* the days datetime.now() can fall on.
LoggerNames == {"notifier", "pbs_monitor"}
LogLevels == {"INFO", "DEBUG"}
LogFileArgs == {None, Some(<< "custom.log" >>)}
Days == << "20260101", "20260102" >>

\* logging.getLogger(name) for a name never configured.
NewLogger == [handlers |-> << >>, level |-> "NOTSET", propagate |-> TRUE]

\* os.path.join(cls._log_dir, f"{name}_{date}.log")
DefaultLogFile(name, day) == << "logs", name, day >>

FileHandler(file, level) == [kind |-> "FileHandler", level |-> level, file |-> file]
ConsoleHandler == [kind |-> "StreamHandler", level |-> "WARNING", file |-> << >>]

\* Slip: the test on logger.handlers is missing, every call adds handlers.
setup_unguarded(logger, name, log_file, level, day, open_ok) ==
    LET configured == [logger EXCEPT !.level = level, !.propagate = FALSE]
        file == IF log_file = None THEN DefaultLogFile(name, day) ELSE log_file[1]
    IN  IF ~open_ok THEN [logger |-> configured, raised |-> TRUE]
        ELSE [logger |-> [configured EXCEPT
                            !.handlers = logger.handlers \o
                                << FileHandler(file, level), ConsoleHandler >>],
              raised |-> FALSE]

\* LoggerConfig.setup on the registry's logger of that name; open_ok: the
\* log directory and file can be created (os.makedirs and FileHandler
\* raise OSError otherwise, after the level and propagate were set).
setup(logger, name, log_file, level, day, open_ok) ==
    IF logger.handlers # << >> THEN [logger |-> logger, raised |-> FALSE]
    ELSE LET configured == [logger EXCEPT !.level = level, !.propagate = FALSE]
             file == IF log_file = None THEN DefaultLogFile(name, day)
                     ELSE log_file[1]
         IN  IF ~open_ok THEN [logger |-> configured, raised |-> TRUE]
             ELSE [logger |-> [configured EXCEPT
                                 !.handlers = logger.handlers \o
                                     << FileHandler(file, level), ConsoleHandler >>],
                   raised |-> FALSE]

\* LoggerConfig.get_logger
get_logger(logger, name, day, open_ok) ==
    IF logger.handlers = << >>
    THEN setup(logger, name, None, "INFO", day, open_ok)
    ELSE [logger |-> logger, raised |-> FALSE]

VARIABLES
    loggers,        \* one process's logging registry: name -> logger
    log_day,        \* index in Days of the day datetime.now() falls on
    log_calls,      \* LoggerConfig calls made so far, per name
    first_setup,    \* per name, the arguments of the first call that
                    \* returned with handlers installed (Optional)
    log_returned,   \* the last call: its name and whether it raised
    argv,           \* the Submitter's command line (sys.argv[1:])
    config_file,    \* the configuration file on disk
    probe,          \* a scheduler text dump given as lines (text parsing)
    job,            \* the submitted job's state in the scheduler
    poll_interval,  \* the Monitor's config.poll_interval
    spc,            \* Submitter: "main", "submit", "spawn", "exit"
    main_error,     \* how main ended before submitting: "none" if it did not
    missing_params, \* the parameters a ConfigurationError names
    config,         \* the Submitter's loaded configuration (Optional)
    qsub_args,      \* the arguments passed through to qsub
    qsub_calls,     \* qsub invocations so far
    qsub_run,       \* how the qsub call ended
    job_id,         \* Submitter's parsed job id (Optional)
    spawn_calls,    \* Popen invocations so far
    warned,         \* "Warning: Failed to start monitor" was printed
    exit_code,      \* Submitter's exit status: "none" while it runs
    mpc,            \* Monitor: "none", "start", "loop", "sleep", "trace",
                    \*          "send", "done", "crashed"
    m_job_id,       \* Monitor's job_id argument
    job_name,       \* monitor_job's job_name
    initial_status, \* monitor_job's initial_status
    job_enqueued,   \* monitor_job's job_enqueued
    status,         \* monitor_job's status
    exit_status,    \* monitor_job's exit_status
    message,        \* the message handed to the SMTP session (Optional)
    success,        \* _send_notification's success (Optional)
    statusQueries,  \* qstat calls made by the Monitor
    historyQueries, \* tracejob calls made by the Monitor
    sendAttempts,   \* notifier.send_notification calls
    sleeps,         \* completed time.sleep calls
    pollLog,        \* the statuses the loop's polls returned, in order
    lastQuery,      \* how the Monitor's latest qstat call ended
    lastTrace,      \* how the Monitor's tracejob call ended
    lastSmtp        \* how the notifier's SMTP session ended

inputVars == << argv, config_file, probe >>
logVars == << loggers, log_day, log_calls, first_setup, log_returned >>
mainVars == << main_error, missing_params, config, qsub_args >>
subVars == << spc, mainVars, qsub_calls, qsub_run, job_id, spawn_calls, warned,
             exit_code >>
monLocals == << job_name, initial_status, job_enqueued, status, exit_status,
                message, success >>
monCounts == << statusQueries, historyQueries, sendAttempts, sleeps, pollLog,
                lastQuery, lastTrace, lastSmtp >>
vars == << inputVars, logVars, job, poll_interval, subVars, mpc, m_job_id, monLocals,
          monCounts >>

\* Nothing has run yet; the command line, the configuration file and the
\* text dump are drawn from the given sets.
Start(argvs, files, probes) ==
    /\ argv \in argvs
    /\ config_file \in files
    /\ probe \in probes
    /\ loggers = [name \in LoggerNames |-> NewLogger]
    /\ log_day = 1
    /\ log_calls = [name \in LoggerNames |-> 0]
    /\ first_setup = [name \in LoggerNames |-> None]
    /\ log_returned = [name |-> "none", raised |-> FALSE]
    /\ job = "none"
    /\ poll_interval = DEFAULT_CONFIG.poll_interval
    /\ spc = "main"
    /\ main_error = "none"
    /\ missing_params = << >>
    /\ config = None
    /\ qsub_args = << >>
    /\ qsub_calls = 0
    /\ qsub_run = [kind |-> "none", stdout |-> << >>]
    /\ job_id = None
    /\ spawn_calls = 0
    /\ warned = FALSE
    /\ exit_code = "none"
    /\ mpc = "none"
    /\ m_job_id = << >>
    /\ job_name = None
    /\ initial_status = None
    /\ job_enqueued = FALSE
    /\ status = None
    /\ exit_status = None
    /\ message = None
    /\ success = None
    /\ statusQueries = 0
    /\ historyQueries = 0
    /\ sendAttempts = 0
    /\ sleeps = 0
    /\ pollLog = << >>
    /\ lastQuery = "none"
    /\ lastTrace = [kind |-> "none", stdout |-> << >>]
    /\ lastSmtp = "none"

Init == Start(Argvs, ConfigFiles, {<< >>})

\* ------------------------------------------------------------ mqsub.py: main

\* Steps 1 to 6: parse the arguments, check that a script is given, load
\* the configuration; every failure is sys.exit(1), help is sys.exit(0).
Main ==
    /\ spc = "main"
    /\ LET args == ParsedArgs[argv]
           load == LoadedConfig[config_file]
           error == IF args.outcome # "parsed" THEN args.outcome
                    ELSE IF NoScript(args.qsub_args) THEN "no_script"
                    ELSE IF load.error # "none" THEN "config_error"
                    ELSE "none"
       IN  /\ main_error' = error
           /\ qsub_args' = args.qsub_args
           /\ missing_params' = IF error = "config_error" THEN load.missing
                                 ELSE missing_params
           /\ config' = IF error = "none" THEN load.config ELSE config
           /\ spc' = IF error = "none" THEN "submit" ELSE "exit"
           /\ exit_code' = IF error = "none" THEN exit_code
                            ELSE IF error = "help" THEN "0" ELSE "1"
    /\ UNCHANGED << inputVars, logVars, job, poll_interval, qsub_calls, qsub_run, job_id,
                    spawn_calls, warned, mpc, m_job_id, monLocals, monCounts >>

\* --------------------------------------------- mqsub.py: submit_and_monitor

\* Steps 2 and 3, qsub ending as one of runs: run qsub once, then parse the
\* job id from its stdout. Either failure is sys.exit(1).
SubmitJobFrom(runs) ==
    /\ spc = "submit"
    /\ \E run \in runs :
        LET parsed == ParsedJobId[run]
            ok == run.kind = "completed" /\ ~parsed.raised
        IN  /\ qsub_calls' = qsub_calls + 1
            /\ qsub_run' = run
            /\ job' = IF run.kind = "completed" THEN "Q" ELSE job
            /\ job_id' = IF ok THEN Some(parsed.value) ELSE job_id
            /\ spc' = IF ok THEN "spawn" ELSE "exit"
            /\ exit_code' = IF ok THEN exit_code ELSE "1"
    /\ UNCHANGED << inputVars, logVars, poll_interval, mainVars, spawn_calls, warned, mpc,
                    m_job_id, monLocals, monCounts >>

SubmitJob == SubmitJobFrom(QsubRuns)

\* The same steps when qsub may print any output.
SubmitAnyOutput == SubmitJobFrom(AnyQsubRuns)

\* Slip: a failed Popen is treated as fatal, like the steps before it.
ExitAfterSpawnFatal(popen_ok) == IF popen_ok THEN "0" ELSE "1"

\* The Submitter's exit status once Popen has returned (popen_ok) or
\* raised: the except branch only prints a warning.
ExitAfterSpawn(popen_ok) == "0"

\* Slip: the Monitor is run as a child the Submitter waits for
\* (subprocess.run instead of Popen): the Submitter returns only once the
\* Monitor has ended.
SpawnMonitorWaiting ==
    \/ /\ spc = "spawn"
       /\ spawn_calls' = spawn_calls + 1
       /\ mpc' = "start"
       /\ m_job_id' = job_id[1]
       /\ spc' = "wait"
       /\ UNCHANGED << inputVars, logVars, job, poll_interval, mainVars, qsub_calls,
                       qsub_run, job_id, warned, exit_code, monLocals, monCounts >>
    \/ /\ spc = "wait"
       /\ mpc \in {"done", "crashed"}
       /\ spc' = "exit"
       /\ exit_code' = "0"
       /\ UNCHANGED << inputVars, logVars, job, poll_interval, mainVars, qsub_calls,
                       qsub_run, job_id, spawn_calls, warned, mpc, m_job_id,
                       monLocals, monCounts >>

\* Step 4: one Popen of the detached Monitor, then return to main.
SpawnMonitor ==
    /\ spc = "spawn"
    /\ \E popen_ok \in BOOLEAN :
        /\ spawn_calls' = spawn_calls + 1
        /\ mpc' = IF popen_ok THEN "start" ELSE mpc
        /\ m_job_id' = IF popen_ok THEN job_id[1] ELSE m_job_id
        /\ warned' = ~popen_ok
        /\ exit_code' = ExitAfterSpawn(popen_ok)
        /\ spc' = "exit"
    /\ UNCHANGED << inputVars, logVars, job, poll_interval, mainVars, qsub_calls, qsub_run,
                    job_id, monLocals, monCounts >>

\* ------------------------------------------------- monitor.py: monitor_job

\* Slip: the Monitor proceeds whatever the first query returned.
JobEnqueuedAlways(initial) == TRUE

JobEnqueued(initial) == initial # None

\* Slip: a running job's status passes the completion test too.
CompletionOnRunning(enqueued, st) ==
    st \in {Some(COMPLETED), Some(<<"R">>)} \/ (enqueued /\ st = None)

\* Slip: only the completed code passes; a vanished job never does.
CompletionOnlyOnCode(enqueued, st) == st = Some(COMPLETED)

CompletionCondition(enqueued, st) ==
    st = Some(COMPLETED) \/ (enqueued /\ st = None)

\* Slip: a first query that already reads the completed code starts the
\* notification cycle at once.
AfterFirstQueryCompleting(enqueued, initial) ==
    IF ~enqueued THEN "done"
    ELSE IF initial = Some(COMPLETED) THEN "trace" ELSE "loop"

\* Slip: the loop waits one interval before its first poll.
AfterFirstQuerySleeping(enqueued, initial) ==
    IF enqueued THEN "sleep" ELSE "done"

\* Where the Monitor goes after the first query: return, or enter the loop,
\* whose first statement is a poll.
AfterFirstQuery(enqueued, initial) ==
    IF enqueued THEN "loop" ELSE "done"

\* monitor.py's main (load the configuration, build the JobMonitor), then
\* steps 1 and 2 with the status query run being one of runs: the first
\* status query; exit early when it has no status.
FirstQueryFrom(runs) ==
    /\ mpc = "start"
    /\ poll_interval' = LoadedConfig[config_file].config[1].poll_interval
    /\ \E run \in runs :
        LET r == JobStatusOf[run]
        IN  /\ job_name' = r[1]
            /\ initial_status' = r[2]
            /\ job_enqueued' = JobEnqueued(r[2])
            /\ lastQuery' = run.kind
            /\ mpc' = AfterFirstQuery(JobEnqueued(r[2]), r[2])
    /\ statusQueries' = statusQueries + 1
    /\ UNCHANGED << inputVars, logVars, job, subVars, m_job_id, status, exit_status,
                    message, success, historyQueries, sendAttempts, sleeps,
                    pollLog, lastTrace, lastSmtp >>

FirstQuery == FirstQueryFrom(QstatRuns(m_job_id, job))

\* The same steps when qstat prints the text dump under test.
ProbeQuery == FirstQueryFrom({Completed(ProbeText(probe))})

\* Slip: a name seen on an earlier poll is kept when a poll returns none.
PolledNameRetained(previous, polled) ==
    IF polled = None THEN previous ELSE polled

\* job_name after a poll: the tuple assignment overwrites it.
PolledName(previous, polled) == polled

\* Slip: the notification is sent without the history query.
AfterPollSkippingHistory(finished) == IF finished THEN "send" ELSE "sleep"

\* Where the loop goes after the completion test.
AfterPoll(finished) == IF finished THEN "trace" ELSE "sleep"

\* Steps 4 and 5: one poll of the loop and the completion test.
Poll ==
    /\ mpc = "loop"
    /\ \E run \in QstatRuns(m_job_id, job) :
        LET r == JobStatusOf[run]
            finished == CompletionCondition(job_enqueued, r[2])
        IN  /\ finished \/ Len(pollLog) < MaxPolls
            /\ job_name' = PolledName(job_name, r[1])
            /\ status' = r[2]
            /\ lastQuery' = run.kind
            /\ pollLog' = Append(pollLog, r[2])
            /\ mpc' = AfterPoll(finished)
    /\ statusQueries' = statusQueries + 1
    /\ UNCHANGED << inputVars, logVars, job, poll_interval, subVars, m_job_id, initial_status,
                    job_enqueued, exit_status, message, success,
                    historyQueries, sendAttempts, sleeps, lastTrace, lastSmtp >>

\* Slip: the loop gives up after one wait instead of polling again.
SleepThenGiveUp ==
    /\ mpc = "sleep"
    /\ mpc' = "done"
    /\ sleeps' = sleeps + 1
    /\ UNCHANGED << inputVars, logVars, job, poll_interval, subVars, m_job_id, monLocals,
                    statusQueries, historyQueries, sendAttempts, pollLog,
                    lastQuery, lastTrace, lastSmtp >>

\* Step 7: time.sleep(poll_interval); a negative interval is a ValueError
\* nothing catches.
Sleep ==
    /\ mpc = "sleep"
    /\ IF poll_interval < 0
       THEN mpc' = "crashed" /\ sleeps' = sleeps
       ELSE mpc' = "loop" /\ sleeps' = sleeps + 1
    /\ UNCHANGED << inputVars, logVars, job, poll_interval, subVars, m_job_id, monLocals,
                    statusQueries, historyQueries, sendAttempts, pollLog,
                    lastQuery, lastTrace, lastSmtp >>

\* Slip: only a clean tracejob run is handled; a timeout or an error of
\* the call ends the Monitor before it notifies.
GetExitStatusUncaught ==
    /\ mpc = "trace"
    /\ \E run \in TracejobRuns :
        /\ exit_status' = ExitStatusOf[run]
        /\ lastTrace' = run
        /\ mpc' = IF run.kind = "completed" THEN "send" ELSE "crashed"
    /\ historyQueries' = historyQueries + 1
    /\ UNCHANGED << inputVars, logVars, job, poll_interval, subVars, m_job_id, job_name,
                    initial_status, job_enqueued, status, message, success,
                    statusQueries, sendAttempts, sleeps, pollLog, lastQuery,
                    lastSmtp >>

\* The history query made once the completion test has passed.
GetExitStatus ==
    /\ mpc = "trace"
    /\ \E run \in TracejobRuns :
        /\ exit_status' = ExitStatusOf[run]
        /\ lastTrace' = run
    /\ historyQueries' = historyQueries + 1
    /\ mpc' = "send"
    /\ UNCHANGED << inputVars, logVars, job, poll_interval, subVars, m_job_id, job_name,
                    initial_status, job_enqueued, status, message, success,
                    statusQueries, sendAttempts, sleeps, pollLog, lastQuery,
                    lastSmtp >>

\* Slip: a failed send is attempted again instead of leaving the loop.
SendNotificationRetrying ==
    /\ mpc = "send"
    /\ \E smtp \in SmtpOutcomes :
        LET sent == send_notification(smtp)
        IN  /\ message' = Some(_create_message(m_job_id, job_name, exit_status))
            /\ success' = Some(sent.value)
            /\ mpc' = IF sent.value THEN "done" ELSE "send"
            /\ lastSmtp' = smtp
    /\ sendAttempts' = sendAttempts + 1
    /\ UNCHANGED << inputVars, logVars, job, poll_interval, subVars, m_job_id, job_name,
                    initial_status, job_enqueued, status, exit_status,
                    statusQueries, historyQueries, sleeps, pollLog, lastQuery,
                    lastTrace >>

\* _send_notification, then break: one call of the notifier, its boolean
\* logged, the Monitor done.
SendNotification ==
    /\ mpc = "send"
    /\ \E smtp \in SmtpOutcomes :
        LET sent == send_notification(smtp)
        IN  /\ message' = Some(_create_message(m_job_id, job_name, exit_status))
            /\ success' = IF sent.raised THEN success ELSE Some(sent.value)
            /\ mpc' = IF sent.raised THEN "crashed" ELSE "done"
            /\ lastSmtp' = smtp
    /\ sendAttempts' = sendAttempts + 1
    /\ UNCHANGED << inputVars, logVars, job, poll_interval, subVars, m_job_id, job_name,
                    initial_status, job_enqueued, status, exit_status,
                    statusQueries, historyQueries, sleeps, pollLog, lastQuery,
                    lastTrace >>

\* ------------------------------------------------- the scheduler's progress

JobRuns ==
    /\ job = "Q"
    /\ job' = "R"
    /\ UNCHANGED << inputVars, logVars, poll_interval, subVars, mpc, m_job_id, monLocals, monCounts >>

JobCompletes ==
    /\ job = "R"
    /\ job' = "C"
    /\ UNCHANGED << inputVars, logVars, poll_interval, subVars, mpc, m_job_id, monLocals, monCounts >>

\* A completed job is purged after the retention window.
JobPurged ==
    /\ job = "C"
    /\ job' = "gone"
    /\ UNCHANGED << inputVars, logVars, poll_interval, subVars, mpc, m_job_id, monLocals, monCounts >>

\* A job that leaves the queue without ever being listed as completed
\* (no retention, or deleted).
JobVanishes ==
    /\ job \in {"Q", "R"}
    /\ job' = "gone"
    /\ UNCHANGED << inputVars, logVars, poll_interval, subVars, mpc, m_job_id, monLocals, monCounts >>

\* ----------------------------------------------------------- specification

SubmitterNext == Main \/ SubmitJob \/ SpawnMonitor
MonitorNext == FirstQuery \/ Poll \/ Sleep \/ GetExitStatus \/ SendNotification
SchedulerNext == JobRuns \/ JobCompletes \/ JobPurged \/ JobVanishes

Next == SubmitterNext \/ MonitorNext \/ SchedulerNext

Spec == Init /\ [][Next]_vars

\* parse_job_id on every output: one Submitter, given a script and a
\* complete configuration, up to the parse.
CompleteConfig == [state |-> "json", data |-> FileValue]
ParseIdInit == Start({<< "job.sh" >>}, {CompleteConfig}, {<< >>})
ParseIdNext == Main \/ SubmitAnyOutput
ParseIdSpec == ParseIdInit /\ [][ParseIdNext]_vars

\* One call of LoggerConfig.setup or LoggerConfig.get_logger (log_file and
\* level are then setup's defaults) that returned or raised as result says.
LoggerCall(name, log_file, level, result) ==
    /\ loggers' = [loggers EXCEPT ![name] = result.logger]
    /\ log_calls' = [log_calls EXCEPT ![name] = @ + 1]
    /\ log_returned' = [name |-> name, raised |-> result.raised]
    /\ first_setup' =
          IF first_setup[name] = None /\ ~result.raised
          THEN [first_setup EXCEPT
                  ![name] = Some([log_file |-> log_file, level |-> level,
                                  day |-> Days[log_day]])]
          ELSE first_setup
    /\ UNCHANGED << inputVars, log_day, job, poll_interval, subVars, mpc,
                    m_job_id, monLocals, monCounts >>

TotalLogCalls == log_calls["notifier"] + log_calls["pbs_monitor"]

Setup ==
    /\ TotalLogCalls < MaxLogCalls
    /\ \E name \in LoggerNames, log_file \in LogFileArgs, level \in LogLevels,
          open_ok \in BOOLEAN :
            LoggerCall(name, log_file, level,
                       setup(loggers[name], name, log_file, level,
                             Days[log_day], open_ok))

GetLogger ==
    /\ TotalLogCalls < MaxLogCalls
    /\ \E name \in LoggerNames, open_ok \in BOOLEAN :
            LoggerCall(name, None, "INFO",
                       get_logger(loggers[name], name, Days[log_day], open_ok))

\* Midnight: datetime.now() moves to the next day.
DayPasses ==
    /\ log_day < Len(Days)
    /\ log_day' = log_day + 1
    /\ UNCHANGED << inputVars, loggers, log_calls, first_setup, log_returned,
                    job, poll_interval, subVars, mpc, m_job_id, monLocals,
                    monCounts >>

\* The logging registry of one process under any order of calls.
LoggerInit == Start({<< "job.sh" >>}, {CompleteConfig}, {<< >>})
LoggerNext == Setup \/ GetLogger \/ DayPasses
LoggerSpec == LoggerInit /\ [][LoggerNext]_vars

\* _parse_job_name and _parse_job_status on every text dump: one Submitter
\* and its Monitor up to the first status query.
ProbeInit == Start({<< "job.sh" >>}, {CompleteConfig}, Probes)
ProbeNext == Main \/ SubmitJob \/ SpawnMonitor \/ ProbeQuery
ProbeSpec == ProbeInit /\ [][ProbeNext]_vars

\* The Monitor keeps being scheduled and the job eventually finishes.
FairSpec == Spec /\ WF_vars(MonitorNext) /\ WF_vars(SchedulerNext)

\* ------------------------------------------------------------ properties

Last(seq) == seq[Len(seq)]

\* A status that is neither absent nor the completed code.
NonTerminal(st) == st # None /\ st # Some(COMPLETED)

\* The Monitor's states of the design: NotEnqueued, Pending, Terminal.
NotEnqueued == mpc = "done" /\ ~job_enqueued
Pending == mpc \in {"loop", "sleep"}
Terminal == mpc \in {"trace", "send"} \/ (mpc = "done" /\ job_enqueued)

\* C1: when the first status query yields no status (not found, timeout or
\* error), the Monitor is done at once: one status query in all, no loop
\* poll, no history query, no notifier call, whatever the scheduler does
\* afterwards.
C1_NotEnqueuedExitsSilently ==
    (mpc \notin {"none", "start"} /\ initial_status = None) =>
        /\ mpc = "done"
        /\ statusQueries = 1
        /\ pollLog = << >>
        /\ historyQueries = 0
        /\ sendAttempts = 0
        /\ message = None
        /\ ~ENABLED MonitorNext

\* C1 witness: the first query timed out, the Monitor exited without
\* notifying, and the job has since left the queue.
C1_Witness ==
    /\ mpc = "done"
    /\ initial_status = None
    /\ lastQuery = "TimeoutExpired"
    /\ sendAttempts = 0
    /\ job = "gone"

\* C2: after a first query with a status, while every loop poll so far
\* returned a queued/running status nothing is notified and the Monitor
\* stays Pending; the first poll returning 'C' is the last poll, moves the
\* Monitor to Terminal and leads to exactly one notification.
C2_CompletedCodeNotifiesOnce ==
    \A n \in 1..Len(pollLog) :
        (\A i \in 1..(n - 1) : NonTerminal(pollLog[i])) =>
            /\ (n = Len(pollLog) /\ NonTerminal(pollLog[n])) =>
                    /\ mpc \in {"loop", "sleep", "crashed"}
                    /\ historyQueries = 0
                    /\ sendAttempts = 0
            /\ pollLog[n] = Some(COMPLETED) =>
                    /\ n = Len(pollLog)
                    /\ Terminal
                    /\ sendAttempts = IF mpc = "done" THEN 1 ELSE 0

\* C2 witness: polls returning Q, R, then C, and the one notification made.
C2_Witness ==
    /\ pollLog = << Some(<<"Q">>), Some(<<"R">>), Some(COMPLETED) >>
    /\ mpc = "done"
    /\ sendAttempts = 1

\* C3: after a first query with a status, a loop poll with no status moves
\* the Monitor to Terminal and leads to exactly one notification; when the
\* history query's output has no Exit_status line, the message carries no
\* exit status.
C3_DisappearanceNotifiesOnce ==
    (pollLog # << >> /\ Last(pollLog) = None) =>
        /\ Terminal
        /\ sendAttempts = IF mpc = "done" THEN 1 ELSE 0
        /\ (mpc = "done" /\ lastTrace.kind = "completed"
                /\ ~Contains(lastTrace.stdout, EXIT_STATUS)) =>
              message # None /\ message[1].body_exit_status = None

\* C3 witness: a poll saw the job running, the next found it purged, the
\* history query had no data, and the one notification has no exit status.
C3_Witness ==
    /\ pollLog = << Some(<<"R">>), None >>
    /\ lastQuery = "completed"
    /\ job = "gone"
    /\ lastTrace = Completed(TRACE_EMPTY)
    /\ mpc = "done"
    /\ sendAttempts = 1
    /\ message # None /\ message[1].body_exit_status = None

\* C4: a loop poll whose status query timed out or raised is absorbed: the
\* Monitor stays Pending and nothing is notified because of it.
C4_FailedPollAbsorbed ==
    (pollLog # << >> /\ lastQuery \in {"TimeoutExpired", "Exception"}) =>
        /\ mpc \in {"loop", "sleep", "crashed"}
        /\ historyQueries = 0
        /\ sendAttempts = 0

\* C5: never more than one send attempt; a Monitor that reached Terminal
\* and finished made exactly one, whatever its outcome, and is done right
\* after it with nothing left to run.
C5_ExactlyOneSendAttempt ==
    /\ sendAttempts <= 1
    /\ sendAttempts = 1 => mpc = "done" /\ success # None
    /\ (mpc = "done" /\ job_enqueued) => sendAttempts = 1
    /\ mpc = "done" => ~ENABLED MonitorNext

\* C5 witness: the single send failed and the Monitor is done.
C5_Witness ==
    /\ mpc = "done"
    /\ sendAttempts = 1
    /\ success = Some(FALSE)
    /\ lastSmtp = "connect_error"

C7_HistoryQueryNeverBlocks ==
    historyQueries > 0 =>
        /\ historyQueries = 1
        /\ mpc \in {"send", "done"}
        /\ mpc = "send" => ENABLED SendNotification
        /\ (lastTrace.kind # "completed"
                \/ ~Contains(lastTrace.stdout, EXIT_STATUS)) => exit_status = None
        /\ mpc = "done" =>
              /\ sendAttempts = 1
              /\ message # None /\ message[1].body_exit_status = exit_status

\* C7 witness: the history query timed out and the notification was sent
\* without an exit status.
C7_Witness ==
    /\ lastTrace = TimedOut
    /\ mpc = "done"
    /\ sendAttempts = 1
    /\ message # None /\ message[1].body_exit_status = None

\* C8: send_notification's boolean is True exactly when the SMTP session
\* went through and False when any of its steps raised; nothing
\* propagates, so the Monitor is done (not crashed) after the send.
C8_SendOutcomeIsBoolean ==
    sendAttempts > 0 =>
        /\ mpc = "done"
        /\ success = Some(lastSmtp = "sent")

\* C8 witness: the SMTP login raised, the send reported False, and the
\* Monitor finished normally.
C8_Witness ==
    /\ lastSmtp = "login_error"
    /\ success = Some(FALSE)
    /\ mpc = "done"

\* The submit command's output has no non-blank character.
EmptyOutput == Strip(qsub_run.stdout) = << >>

\* C9: qsub is called at most once; the Monitor is spawned (or a spawn even
\* tried) only after qsub exited zero and an identifier was parsed from its
\* non-empty output; after a non-zero exit, a missing command or an empty
\* output the Submitter exits with status 1 and no Monitor exists.
C9_SpawnOnlyAfterParsedSubmit ==
    /\ qsub_calls <= 1
    /\ (spawn_calls > 0 \/ mpc # "none" \/ spc = "spawn") =>
          /\ qsub_calls = 1
          /\ qsub_run.kind = "completed"
          /\ ~EmptyOutput
          /\ job_id # None
    /\ (qsub_calls = 1 /\ (qsub_run.kind # "completed" \/ EmptyOutput)) =>
          /\ spc = "exit"
          /\ exit_code = "1"
          /\ spawn_calls = 0
          /\ mpc = "none"

\* C9 witness: qsub exited zero with blank output; the Submitter failed
\* and spawned nothing.
C9_Witness ==
    /\ qsub_run = Completed(OUT_BLANK)
    /\ spc = "exit"
    /\ exit_code = "1"
    /\ mpc = "none"

\* C10: when Popen fails after a successful submit and parse, the
\* Submitter warns and exits with status 0 after that one spawn attempt;
\* the job stays submitted and no Monitor runs.
C10_SpawnFailureIsWarning ==
    warned =>
        /\ spc = "exit"
        /\ exit_code = "0"
        /\ spawn_calls = 1
        /\ qsub_calls = 1
        /\ job # "none"
        /\ mpc = "none"
        /\ ~ENABLED SubmitterNext

\* C10 witness: the spawn failed, the Submitter exited 0 with a warning,
\* and the job went on to complete.
C10_Witness ==
    /\ warned
    /\ exit_code = "0"
    /\ job = "C"

\* ------------------------------------------------------------ mqsub.py: main

\* What the command line and the file are, read off the inputs themselves.
HelpGiven == Range(argv) \cap {"-h", "--help"} # {}
ScriptGiven == "job.sh" \in Range(argv)
ConfigUnloadable ==
    \/ config_file.state # "json"
    \/ ~(Range(REQUIRED_PARAMS) \subseteq DOMAIN config_file.data)

\* C11: a command line without a script, or a configuration that does not
\* load, ends the Submitter with status 1 before anything is submitted: qsub
\* is never called, the job does not exist and no Monitor is spawned (a help
\* request is not such a failure). A failed qsub or an output without a job
\* id ends it with status 1 as well, with no Monitor.
C11_FailuresExitNonZero ==
    /\ (~HelpGiven /\ (~ScriptGiven \/ ConfigUnloadable)) =>
          /\ spc \in {"main", "exit"}
          /\ spc = "exit" => exit_code = "1"
          /\ qsub_calls = 0
          /\ job = "none"
          /\ spawn_calls = 0
          /\ mpc = "none"
    /\ (qsub_calls = 1 /\ (qsub_run.kind # "completed" \/ job_id = None)) =>
          /\ spc = "exit"
          /\ exit_code = "1"
          /\ mpc = "none"

\* C11 witness: a script is given but the configuration lacks required
\* parameters; the Submitter has exited with status 1 and qsub never ran.
C11_Witness ==
    /\ ScriptGiven
    /\ ~HelpGiven
    /\ config_file.state = "json"
    /\ ConfigUnloadable
    /\ spc = "exit"
    /\ main_error = "config_error"
    /\ exit_code = "1"
    /\ qsub_calls = 0

\* ------------------------------------------------------ mqsub.py: parse_job_id

\* The first line of a text.
FirstLine(text) == Split(text, "\n")[1]

\* The part of a text to the left of its first '.', all of it when it has
\* none.
LeftOfFirstDot(text) ==
    IF IndexOf(text, ".") = 0 THEN text
    ELSE SubSeq(text, 1, IndexOf(text, ".") - 1)

\* C12: after a qsub that exited zero, a blank output is a parse failure
\* and any other output gives the part of its first line (blank lines and
\* blanks around the output aside) to the left of the first '.'.
C12_IdFromFirstLine ==
    (qsub_calls = 1 /\ qsub_run.kind = "completed") =>
        IF Strip(qsub_run.stdout) = << >>
        THEN job_id = None /\ spc = "exit" /\ exit_code = "1"
        ELSE job_id = Some(LeftOfFirstDot(FirstLine(Strip(qsub_run.stdout))))

\* --------------------------------------------------------- config_loader.py

\* The required keys the file does not hold.
AbsentRequired == Range(REQUIRED_PARAMS) \ DOMAIN config_file.data

\* C13: for every set of keys a JSON configuration file holds, once main
\* has loaded it: if required keys are absent the load fails and the error
\* names each absent required key once and no other key; otherwise the load
\* succeeds, every key of the file keeps the file's value, and an absent
\* pbs_username or poll_interval has its default ("zpzheng", 60).
C13_LoaderNamesMissingOrMerges ==
    (spc # "main" /\ ScriptGiven /\ ~HelpGiven /\ config_file.state = "json") =>
        IF AbsentRequired # {}
        THEN /\ main_error = "config_error"
             /\ Range(missing_params) = AbsentRequired
             /\ Len(missing_params) = Cardinality(AbsentRequired)
             /\ config = None
        ELSE /\ main_error = "none"
             /\ config # None
             /\ DOMAIN config[1] =
                    DOMAIN config_file.data \cup {"pbs_username", "poll_interval"}
             /\ \A k \in DOMAIN config_file.data :
                    config[1][k] = config_file.data[k]
             /\ "pbs_username" \notin DOMAIN config_file.data =>
                    config[1].pbs_username = "zpzheng"
             /\ "poll_interval" \notin DOMAIN config_file.data =>
                    config[1].poll_interval = 60

\* C13 witness: a file without two or more of the required keys was loaded
\* and the error names them all.
C13_Witness ==
    /\ config_file.state = "json"
    /\ Cardinality(AbsentRequired) >= 2
    /\ spc = "exit"
    /\ main_error = "config_error"
    /\ Range(missing_params) = AbsentRequired

\* ------------------------------------------- monitor.py: status/name parsing

\* The value of the first line of the dump that assigns key, None when no
\* line does.
FirstValueOf(lines, key) ==
    LET hits == {i \in DOMAIN lines : lines[i].key = key}
    IN  IF hits = {} THEN None
        ELSE Some(lines[CHOOSE i \in hits : \A j \in hits : i <= j].value)

\* C14: for every text dump the status query prints, the status is the
\* value of the first 'job_state = <code>' line and the name the value of
\* the first 'Job_Name = <name>' line without its quotes; a field no line
\* gives is None, whatever the other field is, and the query raises nothing.
C14_FirstMatchingLineWins ==
    (mpc \notin {"none", "start"}) =>
        /\ initial_status = FirstValueOf(probe, "job_state")
        /\ job_name = FirstValueOf(probe, "Job_Name")
        /\ lastQuery = "completed"
        /\ mpc \in {"loop", "done"}

\* C14 witness: a dump with two different job_state lines and no Job_Name
\* line was parsed: the first state, no name.
C14_Witness ==
    /\ Len(probe) = 3
    /\ probe[1].key = "job_state"
    /\ probe[3].key = "job_state"
    /\ probe[1].value # probe[3].value
    /\ probe[2].key = "other"
    /\ mpc = "loop"
    /\ initial_status = Some(probe[1].value)
    /\ job_name = None

\* ------------------------------------------------ monitor.py: termination

\* The Monitor process has ended.
MonitorEnded == mpc \in {"done", "crashed"}

\* It ended right after a first status query without a status.
EndedNotEnqueued ==
    mpc = "done" /\ ~job_enqueued /\ statusQueries = 1 /\ pollLog = << >>

\* It ended after one notification cycle: a history query, then one send.
EndedAfterCycle ==
    mpc = "done" /\ job_enqueued /\ historyQueries = 1 /\ sendAttempts = 1

\* It died in its first wait, which a negative interval turns into an
\* uncaught ValueError, after a poll with a status other than the
\* completed code.
EndedInSleep ==
    /\ mpc = "crashed"
    /\ poll_interval < 0
    /\ Len(pollLog) = 1
    /\ NonTerminal(pollLog[1])
    /\ sleeps = 0
    /\ historyQueries = 0
    /\ sendAttempts = 0

\* A Pending Monitor has only seen statuses other than the completed code,
\* has notified nothing and has a next step.
PendingKeepsPolling ==
    Pending =>
        /\ \A i \in DOMAIN pollLog : NonTerminal(pollLog[i])
        /\ historyQueries = 0
        /\ sendAttempts = 0
        /\ ENABLED (Poll \/ Sleep)

C16_HistoryQueryOnceBetweenPollAndSend ==
    /\ historyQueries <= 1
    /\ (Pending \/ NotEnqueued \/ mpc \in {"none", "start"}) => historyQueries = 0
    /\ mpc = "trace" =>
          /\ historyQueries = 0
          /\ sendAttempts = 0
          /\ CompletionCondition(job_enqueued, Last(pollLog))
    /\ mpc = "send" => (historyQueries = 1 /\ sendAttempts = 0)
    /\ sendAttempts >= 1 => historyQueries = 1
    /\ historyQueries = 1 =>
          /\ pollLog # << >>
          /\ CompletionCondition(job_enqueued, Last(pollLog))
          /\ lastTrace.kind # "none"
          /\ ~ENABLED (FirstQuery \/ Poll)

\* C16 witness: after two polls, the second one reading the completed code,
\* the history query has been made and the send has not.
C16_Witness ==
    /\ mpc = "send"
    /\ pollLog = << Some(<<"R">>), Some(COMPLETED) >>
    /\ statusQueries = 3
    /\ historyQueries = 1
    /\ sendAttempts = 0

\* ----------------------------------------------- monitor.py: polling cadence

\* C17 as stated: a sleep separates any two consecutive status queries, so
\* the sleeps made are at least the status queries made less one; and the
\* Monitor only sleeps after a poll with a non-terminal status.
C17_SleepBetweenAnyTwoQueries ==
    /\ statusQueries >= 1 => sleeps >= statusQueries - 1
    /\ mpc = "sleep" => (pollLog # << >> /\ NonTerminal(Last(pollLog)))

\* C17: the status query is made once before the loop and then by each
\* loop poll; the first loop poll follows the first query with no sleep,
\* and one sleep separates any two consecutive loop polls, so the sleeps
\* made are the loop polls already followed by another poll or by the
\* return to the loop's head; the Monitor only sleeps after a poll with a
\* non-terminal status.
C17_SleepBetweenLoopPolls ==
    /\ statusQueries = (IF mpc \in {"none", "start"} THEN 0 ELSE 1) + Len(pollLog)
    /\ mpc = "sleep" => (pollLog # << >> /\ NonTerminal(Last(pollLog)))
    /\ pollLog = << >> => sleeps = 0
    /\ pollLog # << >> =>
          sleeps = IF mpc = "loop" THEN Len(pollLog) ELSE Len(pollLog) - 1
    /\ \A i \in 1..sleeps : NonTerminal(pollLog[i])

\* C17 witness: the first query, a loop poll that found the job queued, one
\* sleep, a loop poll that read the completed code: three status queries
\* and one sleep.
C17_Witness ==
    /\ mpc = "trace"
    /\ poll_interval >= 0
    /\ pollLog = << Some(<<"Q">>), Some(COMPLETED) >>
    /\ statusQueries = 3
    /\ sleeps = 1

\* --------------------------------------------------- mqsub.py: spawn and forget

\* C18: the Submitter never waits for the Monitor: whenever a Monitor
\* exists the Submitter has already exited with status 0, whatever the job
\* does; and after that exit each step of the Monitor is enabled exactly
\* where the Monitor stands.
C18_SubmitterNeverWaits ==
    /\ mpc # "none" => (spc = "exit" /\ exit_code = "0")
    /\ spc = "spawn" => ENABLED SpawnMonitor
    /\ spc = "exit" =>
          /\ mpc = "start" => ENABLED FirstQuery
          /\ mpc = "loop" => ENABLED Poll
          /\ mpc = "sleep" => ENABLED Sleep
          /\ mpc = "trace" => ENABLED GetExitStatus
          /\ mpc = "send" => ENABLED SendNotification

\* C18 witness: the Submitter has exited with status 0 while the Monitor is
\* Pending, two polls in, and the job is still queued.
C18_Witness ==
    /\ spc = "exit"
    /\ exit_code = "0"
    /\ Pending
    /\ Len(pollLog) = 2
    /\ job = "Q"

\* ------------------------------------------- monitor.py: the name notified

\* C19: the notification names the job as the poll that passed the
\* completion test did: the scheduler's name when that poll had a status,
\* "Unknown" when it had none (the job gone, or the query failed), whatever
\* name the first query and earlier polls returned.
C19_NameIsTheLastPollsName ==
    message # None =>
        /\ pollLog # << >>
        /\ status = Last(pollLog)
        /\ initial_status # None
        /\ Last(pollLog) = None =>
              /\ message[1].subject_job_name = UNKNOWN
              /\ message[1].body_job_name = UNKNOWN
        /\ Last(pollLog) # None =>
              /\ message[1].subject_job_name = JobNameText
              /\ message[1].body_job_name = JobNameText

\* C19 witness: the first query and the first loop poll listed the job
\* (with its name), the second poll had no status; the notification sent
\* says "Unknown".
C19_Witness ==
    /\ mpc = "done"
    /\ initial_status = Some(<<"Q">>)
    /\ pollLog = << Some(<<"R">>), None >>
    /\ message # None
    /\ message[1].subject_job_name = UNKNOWN
    /\ success = Some(TRUE)

\* ------------------------------------------- monitor.py: the first query

\* C20: a first status query that reads the completed code only marks the
\* job as enqueued: the Monitor enters the loop, not NotEnqueued, and
\* neither queries the history nor notifies on that query; the completion
\* test is passed by loop polls only, so a Monitor in or past its
\* notification cycle has made two status queries or more.
C20_FirstQueryNeverNotifies ==
    /\ (initial_status = Some(COMPLETED) /\ statusQueries = 1) =>
          /\ job_enqueued
          /\ mpc = "loop"
          /\ historyQueries = 0
          /\ sendAttempts = 0
          /\ message = None
    /\ initial_status = Some(COMPLETED) => ~NotEnqueued
    /\ (sendAttempts >= 1 \/ Terminal) =>
          /\ statusQueries >= 2
          /\ pollLog # << >>

\* C20 witness: the first query already read the completed code; the
\* notification was sent after the first loop poll read it again: two
\* status queries.
C20_Witness ==
    /\ initial_status = Some(COMPLETED)
    /\ pollLog = << Some(COMPLETED) >>
    /\ mpc = "done"
    /\ sendAttempts = 1
    /\ statusQueries = 2

\* ------------------------------------------- mqsub.py: the id handed over

\* C21: an id that parse_job_id returned is not empty, and the job id a
\* spawned Monitor was started with is not empty.
C21_ParsedIdNonEmpty ==
    /\ job_id # None => job_id[1] # << >>
    /\ mpc # "none" => m_job_id # << >>

\* ---------------------------------------------------------------- logger.py

\* The logger that the first call that installed handlers leaves: its level,
\* no propagation, a file handler on the file and level of that call (the
\* default file carries that call's day) and the console handler.
InstalledBy(name, call) ==
    [handlers |->
        << [kind |-> "FileHandler", level |-> call.level,
            file |-> IF call.log_file = None THEN << "logs", name, call.day >>
                     ELSE call.log_file[1]],
           [kind |-> "StreamHandler", level |-> "WARNING", file |-> << >>] >>,
     level |-> call.level,
     propagate |-> FALSE]

\* C22: after any sequence of setup and get_logger calls, a name without a
\* call that returned normally has no handler, and any other name has
\* exactly the file handler and the console handler of the first such
\* call, with that call's level and file, however many calls with whatever
\* arguments and on whatever day followed; a call on such a name returns
\* without raising.
C22_SetupIsIdempotentPerName ==
    /\ \A name \in LoggerNames :
          IF first_setup[name] = None
          THEN loggers[name].handlers = << >>
          ELSE loggers[name] = InstalledBy(name, first_setup[name][1])
    /\ log_returned.raised => first_setup[log_returned.name] = None

\* C22 witness: "notifier" was set up on the first day; three more calls
\* for it and a day later it still has its two handlers, on the first
\* day's file.
C22_Witness ==
    /\ log_calls["notifier"] = 4
    /\ log_day = 2
    /\ first_setup["notifier"] # None
    /\ first_setup["notifier"][1].day = Days[1]
    /\ Len(loggers["notifier"].handlers) = 2
    /\ loggers["notifier"].handlers[1].file = << "logs", "notifier", Days[1] >>
    /\ loggers["pbs_monitor"].handlers = << >>

====
